---------------------------- MODULE Spec2Model ----------------------------
(***************************************************************************)
(* Model of the task edit/create/delete screen (the Render component).     *)
(*                                                                         *)
(* One instance of the component is modelled.  Its props (task and the     *)
(* three capability flags) are fixed at construction; its state is the     *)
(* react-hook-form draft, the two useState flags, the open/closed state of *)
(* the delete AlertDialog and the gateway calls that are in flight.  What  *)
(* the component emits (gateway calls, toasts, router intents) is recorded *)
(* in history sequences.                                                   *)
(*                                                                         *)
(* Rendering is taken to be in step with the state: a control is enabled   *)
(* exactly when the JSX computes it enabled from the current state.        *)
(* An async handler is split at its await: one action up to the gateway    *)
(* call, one action for the continuation after the call has resolved.      *)
(***************************************************************************)
EXTENDS Integers, Sequences, FiniteSets, TLC

(* ------------------------------ bounds -------------------------------- *)
\* total number of gateway calls one instance may issue in a run
MaxCalls == 2
\* total number of Back / New clicks in a run
MaxNavClicks == 1

(* --------------------------- input domains ---------------------------- *)
\* members of the TaskStatus enumeration (imported from @prisma/client)
TaskStatus == {"Todo", "InProgress"}
\* texts the user can type into the title input
Titles == {"", "Ship report"}
\* texts the user can type into the description textarea
Descriptions == {"", "notes"}
\* identities of existing tasks
TaskIds == {"7"}
\* identities createTask can return
NewIds == {"42", "43"}
\* the task prop is undefined in creation mode
NoTask == [id |-> "<undefined>"]
\* a null description column of a loaded task
Null == "<null>"
\* a key that is absent from a candidate draft
Undefined == "<undefined>"
\* candidate drafts handed to the schema: each key absent, null or a text
SchemaDrafts ==
  [ title       : Titles \cup {Undefined, Null},
    status      : TaskStatus \cup {"todo", Undefined},
    description : Descriptions \cup {Undefined, Null} ]
\* loaded tasks the page can pass as the task prop
Tasks ==
  { [id |-> i, title |-> "Ship report", status |-> s, description |-> d] :
      i \in TaskIds, s \in {"InProgress"}, d \in {Null, "notes"} }

VARIABLES
  task,        \* prop: the loaded task, or NoTask
  canUpdate,   \* prop
  canCreate,   \* prop
  canDelete,   \* prop
  form,        \* react-hook-form values: [title, status, description]
  errors,      \* react-hook-form formState.errors: set of field names
  isSubmitted, \* react-hook-form formState.isSubmitted
  isSaving,    \* useState
  isDeleting,  \* useState
  dialogOpen,  \* open state of the (uncontrolled, modal) AlertDialog
  calls,       \* gateway calls in flight, in issue order
  gwLog,       \* history: the operation of every gateway call issued
  toasts,      \* history: every toast emitted
  nav,         \* history: every router intent emitted
  emitted,     \* history: "toast" / "nav", one per emission, in order
  navClicks,   \* number of Back / New clicks so far
  mounted,     \* FALSE once a navigation has replaced this screen
  last         \* history: the event handled by the last step

props == <<task, canUpdate, canCreate, canDelete>>
vars == <<task, canUpdate, canCreate, canDelete, form, errors, isSubmitted,
          isSaving, isDeleting, dialogOpen, calls, gwLog, toasts, nav,
          emitted, navClicks, mounted, last>>

(* ------------------------------ helpers ------------------------------- *)
HasTask == task # NoTask

NoCall == [op |-> "none"]

\* res: "" for a user event, "invalid" for a submit the resolver stopped,
\* the returned identity for a resolved createTask, "void" for a resolved
\* updateTask / deleteTask, "error" for a call that threw
Event(name, c, res) == [ev |-> name, call |-> c, res |-> res]

RemoveAt(s, i) == SubSeq(s, 1, i - 1) \o SubSeq(s, i + 1, Len(s))

\* z.string() accepts a text, not an absent key and not null
IsString(v) == v \notin {Undefined, Null}

\* variant: the title constraint is missing from the schema
TaskSchemaNoTitleRule(d) ==
  (IF d.status \in TaskStatus THEN {} ELSE {"status"})
    \cup (IF d.description = Undefined \/ IsString(d.description)
            THEN {} ELSE {"description"})

\* variant: description: z.string() without .optional()
TaskSchemaDescriptionRequired(d) ==
  (IF IsString(d.title) /\ Len(d.title) >= 1 THEN {} ELSE {"title"})
    \cup (IF d.status \in TaskStatus THEN {} ELSE {"status"})
    \cup (IF IsString(d.description) THEN {} ELSE {"description"})

\* const TaskSchema = z.object({ title: z.string().nonempty(),
\*   status: z.nativeEnum(TaskStatus), description: z.string().optional() })
\* result: the set of fields that carry an issue
TaskSchemaErrors(d) ==
  (IF IsString(d.title) /\ Len(d.title) >= 1 THEN {} ELSE {"title"})
    \cup (IF d.status \in TaskStatus THEN {} ELSE {"status"})
    \cup (IF d.description = Undefined \/ IsString(d.description)
            THEN {} ELSE {"description"})

\* variant: description without the `?? ''` fallback
DefaultValuesKeepNull(t) ==
  [ title       |-> IF t # NoTask THEN t.title ELSE "",
    status      |-> IF t # NoTask THEN t.status ELSE "Todo",
    description |-> IF t # NoTask THEN t.description ELSE "" ]

\* defaultValues of useForm
DefaultValues(t) ==
  [ title       |-> IF t # NoTask THEN t.title ELSE "",
    status      |-> IF t # NoTask THEN t.status ELSE "Todo",
    description |-> IF t # NoTask /\ t.description # Null
                      THEN t.description ELSE "" ]

\* variant: the list view instead of the detail view
ListHref(newId) == "/tasks"

\* `/tasks/${newId}`
DetailHref(newId) == "/tasks/" \o newId

\* toast({ title: 'Task saved' })
ToastSaved == [title |-> "Task saved", variant |-> "default"]
\* toast({ title: 'Error saving task', variant: 'destructive' })
ToastSaveError == [title |-> "Error saving task", variant |-> "destructive"]
\* toast({ title: 'Task deleted' })
ToastDeleted == [title |-> "Task deleted", variant |-> "default"]
\* toast({ title: 'Error deleting task', variant: 'destructive' })
ToastDeleteError == [title |-> "Error deleting task", variant |-> "destructive"]

(* ------------------------ what the JSX renders ------------------------ *)
\* {(task ? canUpdate : canCreate) ? <Button type="submit" ...> : undefined}
SaveRendered == IF HasTask THEN canUpdate ELSE canCreate

\* disabled={isSaving || isDeleting} on Save, Delete and New
ButtonsDisabled == isSaving \/ isDeleting

\* {task && canDelete ? <AlertDialog> ... : undefined}
DeleteRendered == HasTask /\ canDelete

\* variant: the New link rendered on canCreate alone
NewRenderedWithoutTask == canCreate

\* {task && canCreate ? <Link href="/tasks/new"> ... : undefined}
NewRendered == HasTask /\ canCreate

\* variant: the field controls carry no disabled attribute
FieldsNeverDisabled == FALSE

\* disabled={isSaving} on the title, status and description controls
FieldsDisabled == isSaving

\* The page behind an open AlertDialog is inert (the dialog is modal).
PageInteractive == mounted /\ ~dialogOpen

(* --------------------------- initial state ---------------------------- *)
Init ==
  /\ task \in Tasks \cup {NoTask}
  /\ canUpdate \in BOOLEAN
  /\ canCreate \in BOOLEAN
  /\ canDelete \in BOOLEAN
  /\ form = DefaultValues(task)
  /\ errors = {}
  /\ isSubmitted = FALSE
  /\ isSaving = FALSE
  /\ isDeleting = FALSE
  /\ dialogOpen = FALSE
  /\ calls = <<>>
  /\ gwLog = <<>>
  /\ toasts = <<>>
  /\ nav = <<>>
  /\ emitted = <<>>
  /\ navClicks = 0
  /\ mounted = TRUE
  /\ last = Event("init", NoCall, "")

(* ----------------------------- field edits ---------------------------- *)
\* react-hook-form: after the first submit a change re-validates the field
\* (mode onSubmit, reValidateMode onChange).
Revalidated(d, field) ==
  IF isSubmitted
    THEN (errors \ {field}) \cup (TaskSchemaErrors(d) \cap {field})
    ELSE errors

ChangeField(field, v) ==
  /\ PageInteractive
  /\ ~FieldsDisabled
  /\ form[field] # v
  /\ form' = [form EXCEPT ![field] = v]
  /\ errors' = Revalidated(form', field)
  /\ last' = Event("change", NoCall, "")
  /\ UNCHANGED <<props, isSubmitted, isSaving, isDeleting, dialogOpen, calls,
                 gwLog, toasts, nav, emitted, navClicks, mounted>>

ChangeTitle == \E v \in Titles : ChangeField("title", v)
ChangeStatus == \E v \in TaskStatus : ChangeField("status", v)
ChangeDescription == \E v \in Descriptions : ChangeField("description", v)

(* -------------------------------- Save -------------------------------- *)
\* variant: onSubmit without the `if (!task)` branch, always createTask
SaveCallAlwaysCreate(data) == [op |-> "create", arg |-> data]

\* The gateway call onSubmit(data) makes: createTask(data) when there is no
\* task, updateTask({ id: task.id, ...data }) otherwise.
SaveCall(data) ==
  IF ~HasTask
    THEN [op |-> "create", arg |-> data]
    ELSE [op |-> "update",
          arg |-> [id |-> task.id, title |-> data.title,
                   status |-> data.status, description |-> data.description]]

\* variant: onSubmit without setIsSaving(true)
OnSubmitStartNoFlag(data, ev) ==
  /\ Len(gwLog) < MaxCalls
  /\ calls' = Append(calls, SaveCall(data))
  /\ gwLog' = Append(gwLog, SaveCall(data).op)
  /\ last' = Event(ev, SaveCall(data), "")
  /\ UNCHANGED <<isSaving, isDeleting, toasts, nav, emitted>>

\* onSubmit up to its await: setIsSaving(true), then the gateway call.
OnSubmitStart(data, ev) ==
  /\ Len(gwLog) < MaxCalls
  /\ isSaving' = TRUE
  /\ calls' = Append(calls, SaveCall(data))
  /\ gwLog' = Append(gwLog, SaveCall(data).op)
  /\ last' = Event(ev, SaveCall(data), "")
  /\ UNCHANGED <<isDeleting, toasts, nav, emitted>>

\* form.handleSubmit(onSubmit): run the resolver; with issues, publish them
\* and stop; without, clear the errors and call onSubmit with the values.
HandleSubmit(ev) ==
  /\ isSubmitted' = TRUE
  /\ errors' = TaskSchemaErrors(form)
  /\ IF TaskSchemaErrors(form) = {}
       THEN OnSubmitStart(form, ev)
       ELSE /\ last' = Event(ev, NoCall, "invalid")
            /\ UNCHANGED <<isSaving, isDeleting, calls, gwLog, toasts, nav, emitted>>
  /\ UNCHANGED <<props, form, dialogOpen, navClicks, mounted>>

\* Click on the Save button (type="submit").
ClickSave ==
  /\ PageInteractive
  /\ SaveRendered
  /\ ~ButtonsDisabled
  /\ HandleSubmit("ClickSave")

\* Enter pressed in the title input: the browser's implicit submission.
\* With a submit button in the form, Enter clicks it, and does nothing when
\* it is disabled.  With no submit button, a form with a single text input
\* is submitted directly; the title input is the only <input> of this form
\* (every other button is type="button").
EnterInTitle ==
  /\ PageInteractive
  /\ ~FieldsDisabled
  /\ SaveRendered => ~ButtonsDisabled
  /\ HandleSubmit("EnterInTitle")

\* onSubmit after createTask resolved with newId:
\* router.replace(`/tasks/${newId}`); toast saved; setIsSaving(false)
OnSubmitCreated(newId) ==
  /\ nav' = Append(nav, [kind |-> "replace", href |-> DetailHref(newId)])
  /\ toasts' = Append(toasts, ToastSaved)
  /\ emitted' = emitted \o <<"nav", "toast">>
  /\ isSaving' = FALSE
  /\ UNCHANGED <<form, errors, isDeleting>>

\* onSubmit after updateTask resolved: toast saved; setIsSaving(false)
OnSubmitUpdated ==
  /\ toasts' = Append(toasts, ToastSaved)
  /\ emitted' = Append(emitted, "toast")
  /\ isSaving' = FALSE
  /\ UNCHANGED <<form, errors, isDeleting, nav>>

\* variant: the catch block also resets the form to its default values
OnSubmitCatchReset ==
  /\ toasts' = Append(toasts, ToastSaveError)
  /\ emitted' = Append(emitted, "toast")
  /\ isSaving' = FALSE
  /\ form' = DefaultValues(task)
  /\ UNCHANGED <<errors, isDeleting, nav>>

\* onSubmit after createTask / updateTask threw: the catch block, then
\* setIsSaving(false)
OnSubmitCatch ==
  /\ toasts' = Append(toasts, ToastSaveError)
  /\ emitted' = Append(emitted, "toast")
  /\ isSaving' = FALSE
  /\ UNCHANGED <<form, errors, isDeleting, nav>>

(* ------------------------------- Delete ------------------------------- *)
\* variant: the Delete button runs the delete handler itself, no dialog
ClickDeleteNoConfirm ==
  /\ PageInteractive
  /\ DeleteRendered
  /\ ~ButtonsDisabled
  /\ Len(gwLog) < MaxCalls
  /\ isDeleting' = TRUE
  /\ calls' = Append(calls, [op |-> "delete", arg |-> task.id])
  /\ gwLog' = Append(gwLog, "delete")
  /\ last' = Event("ClickDelete", [op |-> "delete", arg |-> task.id], "")
  /\ UNCHANGED <<props, form, errors, isSubmitted, isSaving, dialogOpen,
                 toasts, nav, emitted, navClicks, mounted>>

\* Click on the Delete button, the AlertDialogTrigger: opens the dialog.
ClickDelete ==
  /\ PageInteractive
  /\ DeleteRendered
  /\ ~ButtonsDisabled
  /\ dialogOpen' = TRUE
  /\ last' = Event("ClickDelete", NoCall, "")
  /\ UNCHANGED <<props, form, errors, isSubmitted, isSaving, isDeleting,
                 calls, gwLog, toasts, nav, emitted, navClicks, mounted>>

\* variant: Cancel also resets the form
ClickCancelReset ==
  /\ mounted
  /\ dialogOpen
  /\ dialogOpen' = FALSE
  /\ form' = DefaultValues(task)
  /\ errors' = {}
  /\ last' = Event("ClickCancel", NoCall, "")
  /\ UNCHANGED <<props, isSubmitted, isSaving, isDeleting, calls, gwLog,
                 toasts, nav, emitted, navClicks, mounted>>

\* Click on AlertDialogCancel: closes the dialog.
ClickCancel ==
  /\ mounted
  /\ dialogOpen
  /\ dialogOpen' = FALSE
  /\ last' = Event("ClickCancel", NoCall, "")
  /\ UNCHANGED <<props, form, errors, isSubmitted, isSaving, isDeleting,
                 calls, gwLog, toasts, nav, emitted, navClicks, mounted>>

\* Click on AlertDialogAction (Continue): its onClick up to the await,
\* setIsDeleting(true) and deleteTask(task.id); the dialog closes.
ClickContinue ==
  /\ mounted
  /\ dialogOpen
  /\ Len(gwLog) < MaxCalls
  /\ isDeleting' = TRUE
  /\ calls' = Append(calls, [op |-> "delete", arg |-> task.id])
  /\ gwLog' = Append(gwLog, "delete")
  /\ dialogOpen' = FALSE
  /\ last' = Event("ClickContinue", [op |-> "delete", arg |-> task.id], "")
  /\ UNCHANGED <<props, form, errors, isSubmitted, isSaving, toasts, nav, emitted,
                 navClicks, mounted>>

\* variant: router.push('/tasks') before the toast
OnDeleteDoneNavFirst ==
  /\ toasts' = Append(toasts, ToastDeleted)
  /\ nav' = Append(nav, [kind |-> "push", href |-> "/tasks"])
  /\ emitted' = emitted \o <<"nav", "toast">>
  /\ isDeleting' = FALSE
  /\ UNCHANGED <<form, errors, isSaving>>

\* onClick after deleteTask resolved: toast deleted; router.push('/tasks');
\* setIsDeleting(false)
OnDeleteDone ==
  /\ toasts' = Append(toasts, ToastDeleted)
  /\ nav' = Append(nav, [kind |-> "push", href |-> "/tasks"])
  /\ emitted' = emitted \o <<"toast", "nav">>
  /\ isDeleting' = FALSE
  /\ UNCHANGED <<form, errors, isSaving>>

\* variant: setIsDeleting(false) sits inside the try block, so a throw
\* skips it
OnDeleteCatchStuck ==
  /\ toasts' = Append(toasts, ToastDeleteError)
  /\ emitted' = Append(emitted, "toast")
  /\ UNCHANGED <<form, errors, isSaving, isDeleting, nav>>

\* onClick after deleteTask threw: the catch block, then
\* setIsDeleting(false)
OnDeleteCatch ==
  /\ toasts' = Append(toasts, ToastDeleteError)
  /\ emitted' = Append(emitted, "toast")
  /\ isDeleting' = FALSE
  /\ UNCHANGED <<form, errors, isSaving, nav>>

(* ------------------------- gateway completions ------------------------ *)
\* A gateway call in flight resolves with a value.
GatewayResolves ==
  \E i \in 1..Len(calls) :
    /\ calls' = RemoveAt(calls, i)
    /\ CASE calls[i].op = "create" ->
               \E newId \in NewIds :
                 /\ OnSubmitCreated(newId)
                 /\ last' = Event("resolved", calls[i], newId)
         [] calls[i].op = "update" ->
               /\ OnSubmitUpdated
               /\ last' = Event("resolved", calls[i], "void")
         [] calls[i].op = "delete" ->
               /\ OnDeleteDone
               /\ last' = Event("resolved", calls[i], "void")
    /\ UNCHANGED <<props, isSubmitted, dialogOpen, gwLog, navClicks, mounted>>

\* variant: a call that threw is issued again by the handler
GatewayThrowsRetry ==
  \E i \in 1..Len(calls) :
    /\ Len(gwLog) < MaxCalls
    /\ gwLog' = Append(gwLog, calls[i].op)
    /\ last' = Event("threw", calls[i], "error")
    /\ UNCHANGED <<props, form, errors, isSubmitted, isSaving, isDeleting,
                   dialogOpen, calls, toasts, nav, emitted, navClicks,
                   mounted>>

\* A gateway call in flight throws.
GatewayThrows ==
  \E i \in 1..Len(calls) :
    /\ calls' = RemoveAt(calls, i)
    /\ last' = Event("threw", calls[i], "error")
    /\ IF calls[i].op = "delete" THEN OnDeleteCatch ELSE OnSubmitCatch
    /\ UNCHANGED <<props, isSubmitted, dialogOpen, gwLog, navClicks, mounted>>

(* ----------------------------- navigation ----------------------------- *)
\* variant: Back disabled like the other buttons while saving or deleting
ClickBackWhenIdle ==
  /\ PageInteractive
  /\ ~ButtonsDisabled
  /\ navClicks < MaxNavClicks
  /\ navClicks' = navClicks + 1
  /\ nav' = Append(nav, [kind |-> "back", href |-> ""])
  /\ emitted' = Append(emitted, "nav")
  /\ last' = Event("ClickBack", NoCall, "")
  /\ UNCHANGED <<props, form, errors, isSubmitted, isSaving, isDeleting,
                 dialogOpen, calls, gwLog, toasts, mounted>>

\* <Button type="button" onClick={() => router.back()}>Back</Button>
ClickBack ==
  /\ PageInteractive
  /\ navClicks < MaxNavClicks
  /\ navClicks' = navClicks + 1
  /\ nav' = Append(nav, [kind |-> "back", href |-> ""])
  /\ emitted' = Append(emitted, "nav")
  /\ last' = Event("ClickBack", NoCall, "")
  /\ UNCHANGED <<props, form, errors, isSubmitted, isSaving, isDeleting,
                 dialogOpen, calls, gwLog, toasts, mounted>>

\* <Link href="/tasks/new"><Button type="button" disabled=...>New</Button></Link>
ClickNew ==
  /\ PageInteractive
  /\ NewRendered
  /\ ~ButtonsDisabled
  /\ navClicks < MaxNavClicks
  /\ navClicks' = navClicks + 1
  /\ nav' = Append(nav, [kind |-> "link", href |-> "/tasks/new"])
  /\ emitted' = Append(emitted, "nav")
  /\ last' = Event("ClickNew", NoCall, "")
  /\ UNCHANGED <<props, form, errors, isSubmitted, isSaving, isDeleting,
                 dialogOpen, calls, gwLog, toasts, mounted>>

\* A router intent takes effect: another screen replaces this one, and the
\* user can no longer act on this instance.  Handlers that are awaiting a
\* gateway call still run their continuation.
NavigationTakesEffect ==
  /\ mounted
  /\ nav # <<>>
  /\ mounted' = FALSE
  /\ last' = Event("navigated", NoCall, "")
  /\ UNCHANGED <<props, form, errors, isSubmitted, isSaving, isDeleting,
                 dialogOpen, calls, gwLog, toasts, nav, emitted, navClicks>>

(* ---------------------------- specification --------------------------- *)
Next ==
  \/ ChangeTitle
  \/ ChangeStatus
  \/ ChangeDescription
  \/ ClickSave
  \/ EnterInTitle
  \/ ClickDelete
  \/ ClickCancel
  \/ ClickContinue
  \/ GatewayResolves
  \/ GatewayThrows
  \/ ClickBack
  \/ ClickNew
  \/ NavigationTakesEffect

Spec == Init /\ [][Next]_vars

(* ----------------------- the schema on its own ------------------------ *)
\* TaskSchema applied to candidate drafts, outside the form: the form only
\* ever holds texts and members of the enumeration.
SchemaInit ==
  /\ task = NoTask
  /\ canUpdate = TRUE /\ canCreate = TRUE /\ canDelete = TRUE
  /\ form \in SchemaDrafts
  /\ errors = {}
  /\ isSubmitted = FALSE
  /\ isSaving = FALSE /\ isDeleting = FALSE /\ dialogOpen = FALSE
  /\ calls = <<>> /\ gwLog = <<>> /\ toasts = <<>> /\ nav = <<>>
  /\ emitted = <<>>
  /\ navClicks = 0
  /\ mounted = TRUE
  /\ last = Event("init", NoCall, "")

\* the resolver: zodResolver(TaskSchema) run on the candidate draft
SafeParse ==
  /\ last.ev # "safeParse"
  /\ errors' = TaskSchemaErrors(form)
  /\ isSubmitted' = TRUE
  /\ last' = Event("safeParse", NoCall,
                   IF TaskSchemaErrors(form) = {} THEN "success" ELSE "invalid")
  /\ UNCHANGED <<props, form, isSaving, isDeleting, dialogOpen, calls, gwLog,
                 toasts, nav, emitted, navClicks, mounted>>

\* another candidate draft
SetDraft ==
  \E d \in SchemaDrafts :
    /\ d # form
    /\ form' = d
    /\ errors' = {}
    /\ last' = Event("draft", NoCall, "")
    /\ UNCHANGED <<props, isSubmitted, isSaving, isDeleting, dialogOpen, calls,
                   gwLog, toasts, nav, emitted, navClicks, mounted>>

SchemaNext ==
  \/ SafeParse
  \/ SetDraft

SchemaSpec == SchemaInit /\ [][SchemaNext]_vars

\* Every issued gateway call eventually resolves or throws.
FairSpec == Spec /\ WF_vars(GatewayResolves \/ GatewayThrows)

TypeOK ==
  /\ task \in Tasks \cup {NoTask}
  /\ form.title \in Titles \cup {"Ship report"}
  /\ form.status \in TaskStatus
  /\ errors \subseteq {"title", "status", "description"}
  /\ isSaving \in BOOLEAN /\ isDeleting \in BOOLEAN /\ dialogOpen \in BOOLEAN
  /\ Len(gwLog) <= MaxCalls /\ Len(calls) <= Len(gwLog)

(* ------------------------- properties checked ------------------------- *)
Idle == ~isSaving /\ ~isDeleting

SubmitEvents == {"ClickSave", "EnterInTitle"}

\* the draft carried by a create / update call
DraftOf(c) ==
  [title |-> c.arg.title, status |-> c.arg.status,
   description |-> c.arg.description]

\* a failure notification is a destructive toast, a success one is not
Failures(ts) == SelectSeq(ts, LAMBDA t : t.variant = "destructive")
Successes(ts) == SelectSeq(ts, LAMBDA t : t.variant # "destructive")

\* C1: isSaving and isDeleting are never both true.
C1_LifecycleExclusive == ~(isSaving /\ isDeleting)

\* C2: at most one gateway call is in flight at any time.
C2_AtMostOneCallInFlight == Len(calls) <= 1

\* C3: a Save of a draft that fails the schema issues no gateway call, does
\* not enter Saving and leaves the lifecycle as it was, emits no toast and no
\* router intent; it only publishes field errors.
C3_InvalidSaveIsLocal ==
  [][ (last'.ev \in SubmitEvents
         /\ (form.title = "" \/ form.status \notin TaskStatus))
      => /\ calls' = calls /\ gwLog' = gwLog
         /\ ~isSaving /\ ~isSaving' /\ isDeleting' = isDeleting
         /\ toasts' = toasts /\ nav' = nav
         /\ form' = form
         /\ errors' # {} /\ errors' \subseteq {"title", "status"}
         /\ (form.title = "") = ("title" \in errors') ]_vars

C3_Witness ==
  /\ SaveRendered
  /\ last.ev = "ClickSave" /\ last.res = "invalid"
  /\ form.title = "" /\ errors = {"title"}
  /\ Idle /\ gwLog = <<>> /\ toasts = <<>>

\* C4: in creation mode with canCreate, Save takes the lifecycle from Idle
\* to Saving, and a createTask that resolves with identity X takes it back
\* to Idle, emits exactly one router intent, replace to /tasks/X, and
\* exactly one toast, the success toast.
C4_CreateSuccess ==
  [][ /\ (last'.ev \in SubmitEvents /\ last'.call.op = "create" /\ canCreate)
         => /\ Idle /\ isSaving' /\ ~isDeleting'
            /\ nav' = nav /\ toasts' = toasts
      /\ (last'.ev = "resolved" /\ last'.call.op = "create" /\ canCreate)
         => /\ isSaving /\ ~isDeleting /\ ~isSaving' /\ ~isDeleting'
            /\ nav' = Append(nav, [kind |-> "replace",
                                   href |-> "/tasks/" \o last'.res])
            /\ last'.res = "42" => nav'[Len(nav')].href = "/tasks/42"
            /\ toasts' = Append(toasts, ToastSaved)
            /\ Len(Successes(toasts')) = Len(Successes(toasts)) + 1
            /\ Failures(toasts') = Failures(toasts) ]_vars

C4_Witness ==
  /\ ~HasTask /\ canCreate
  /\ last.ev = "resolved" /\ last.call.op = "create" /\ last.res = "42"
  /\ last.call.arg.title = "Ship report"
  /\ nav = <<[kind |-> "replace", href |-> "/tasks/42"]>>
  /\ toasts = <<ToastSaved>>
  /\ Idle

\* C5: when the gateway call of a Save throws, the form values after the
\* call are the values before it (and the draft that was passed to the
\* call), exactly one failure toast and no success toast is emitted, and no
\* router intent is issued.
C5_SaveFailureKeepsDraft ==
  [][ (last'.ev = "threw" /\ last'.call.op \in {"create", "update"})
      => /\ form' = form
         /\ form' = DraftOf(last'.call)
         /\ toasts' = Append(toasts, ToastSaveError)
         /\ Len(Failures(toasts')) = Len(Failures(toasts)) + 1
         /\ Successes(toasts') = Successes(toasts)
         /\ nav' = nav ]_vars

C5_Witness ==
  /\ HasTask /\ canUpdate
  /\ last.ev = "threw" /\ last.call.op = "update"
  /\ form # DefaultValues(task)
  /\ form = DraftOf(last.call)
  /\ toasts = <<ToastSaveError>>
  /\ nav = <<>>

\* C6: deleteTask is only called, and Deleting only set, by Continue in the
\* open confirmation dialog, which only a click on Delete opens; the click
\* on Delete itself neither sets Deleting nor calls the gateway.
C6_DeleteNeedsConfirmation ==
  [][ /\ (Len(gwLog') > Len(gwLog) /\ gwLog'[Len(gwLog')] = "delete")
         => dialogOpen /\ last'.ev = "ClickContinue"
      /\ (isDeleting' /\ ~isDeleting)
         => dialogOpen /\ last'.ev = "ClickContinue"
      /\ (dialogOpen' /\ ~dialogOpen) => last'.ev = "ClickDelete"
      /\ (last'.ev = "ClickDelete")
         => /\ ~isDeleting' /\ isDeleting' = isDeleting
            /\ calls' = calls /\ gwLog' = gwLog ]_vars

C6_Witness ==
  /\ last.ev = "ClickContinue"
  /\ isDeleting /\ ~dialogOpen
  /\ calls = <<[op |-> "delete", arg |-> task.id]>>
  /\ gwLog = <<"delete">>

\* C7: from the opening of the confirmation dialog up to and including a
\* Cancel, nothing but the dialog changes: no gateway call, no toast, no
\* router intent, and the lifecycle flags, the form values and the field
\* errors stay as they were.
C7_CancelIsNoOp ==
  [][ ((dialogOpen \/ dialogOpen') /\ last'.ev # "ClickContinue")
      => UNCHANGED <<calls, gwLog, toasts, nav, emitted, isSaving, isDeleting, form,
                     errors, isSubmitted>> ]_vars

C7_Witness ==
  /\ last.ev = "ClickCancel" /\ ~dialogOpen
  /\ form # DefaultValues(task)
  /\ errors # {}
  /\ Idle /\ calls = <<>>

\* C8: no create call is issued without canCreate, no update call without
\* canUpdate, no delete call without canDelete.
C8_CapabilitiesGateCalls ==
  \A i \in 1..Len(gwLog) :
    /\ gwLog[i] = "create" => canCreate
    /\ gwLog[i] = "update" => canUpdate
    /\ gwLog[i] = "delete" => canDelete

\* C9: when the gateway call of a confirmed Delete throws, exactly one
\* failure toast and no success toast is emitted, no router intent is
\* issued, and the lifecycle is Idle again.
C9_DeleteFailure ==
  [][ (last'.ev = "threw" /\ last'.call.op = "delete")
      => /\ toasts' = Append(toasts, ToastDeleteError)
         /\ Len(Failures(toasts')) = Len(Failures(toasts)) + 1
         /\ Successes(toasts') = Successes(toasts)
         /\ nav' = nav
         /\ ~isSaving' /\ ~isDeleting' ]_vars

\* C10: when every issued gateway call eventually resolves or throws, a
\* lifecycle that is Saving or Deleting eventually is Idle again.
C10_EventuallyIdle == (isSaving \/ isDeleting) ~> Idle

C10_Witness ==
  /\ last.ev = "threw" /\ last.call.op = "delete"
  /\ Idle /\ calls = <<>>
  /\ toasts = <<ToastSaveError, ToastDeleteError>>

\* C11: for a description that is absent, empty or any text, the schema
\* accepts a draft exactly when its title is a non-empty text and its status
\* is a member of TaskStatus; a draft with title "" and a valid status is
\* rejected with an error on the title field only.
C11_SchemaAcceptance ==
  (last.ev = "safeParse" /\ form.description # Null)
  => /\ (errors = {})
          <=> /\ form.title \notin {Undefined, Null, ""}
              /\ form.status \in TaskStatus
     /\ (last.res = "success") <=> (errors = {})
     /\ (form.title = "" /\ form.status \in TaskStatus) => errors = {"title"}

C11_Witness ==
  /\ last.ev = "safeParse" /\ last.res = "invalid"
  /\ form = [title |-> "", status |-> "Todo", description |-> Undefined]
  /\ errors = {"title"}

\* C12: in edit mode a Save of a valid draft issues exactly one call,
\* updateTask with the identity of the task prop and the current form
\* values, and never createTask; when it resolves, exactly one toast, the
\* success toast, is emitted and no router intent.
C12_EditSaveUpdates ==
  [][ /\ (last'.ev \in SubmitEvents /\ HasTask /\ form.title # "")
         => /\ gwLog' = Append(gwLog, "update")
            /\ calls' = Append(calls,
                 [op |-> "update",
                  arg |-> [id |-> task.id, title |-> form.title,
                           status |-> form.status,
                           description |-> form.description]])
            /\ last'.call = calls'[Len(calls')]
      /\ HasTask => \A i \in 1..Len(gwLog') : gwLog'[i] # "create"
      /\ (last'.ev = "resolved" /\ last'.call.op = "update")
         => /\ last'.call.arg.id = task.id
            /\ toasts' = Append(toasts, ToastSaved)
            /\ emitted' = Append(emitted, "toast")
            /\ nav' = nav ]_vars

C12_Witness ==
  /\ HasTask /\ canUpdate
  /\ last.ev = "resolved" /\ last.call.op = "update"
  /\ last.call.arg.id = "7" /\ last.call.arg.description = "notes"
  /\ gwLog = <<"update">>
  /\ toasts = <<ToastSaved>>
  /\ nav = <<>>

\* C13: when the deleteTask of a confirmed Delete resolves, exactly one
\* toast, the success toast, is emitted and after it exactly one router
\* intent, push to /tasks; a push to /tasks is issued at no other moment.
C13_DeleteSuccess ==
  [][ /\ (last'.ev = "resolved" /\ last'.call.op = "delete")
         => /\ toasts' = Append(toasts, ToastDeleted)
            /\ nav' = Append(nav, [kind |-> "push", href |-> "/tasks"])
            /\ emitted' = emitted \o <<"toast", "nav">>
      /\ (Len(nav') > Len(nav) /\ nav'[Len(nav')].href = "/tasks")
         => last'.ev = "resolved" /\ last'.call.op = "delete" ]_vars

C13_Witness ==
  /\ HasTask /\ canDelete
  /\ last.ev = "resolved" /\ last.call = [op |-> "delete", arg |-> "7"]
  /\ toasts = <<ToastDeleted>>
  /\ nav = <<[kind |-> "push", href |-> "/tasks"]>>
  /\ emitted = <<"toast", "nav">>
  /\ Idle

\* every call in flight has its flag set
InFlightCovered ==
  \A i \in 1..Len(calls) :
    IF calls[i].op = "delete" THEN isDeleting ELSE isSaving

\* C14: while a gateway call is in flight the lifecycle is not Idle: Saving
\* is set in the step that issues createTask / updateTask and cleared only
\* in the step in which that call has resolved or thrown and its toast is
\* emitted; Deleting likewise for deleteTask.
C14_InFlightNotIdle ==
  [][ /\ InFlightCovered'
      /\ (calls' # <<>>) => (isSaving' \/ isDeleting')
      /\ (isSaving' /\ ~isSaving)
         => /\ Len(gwLog') = Len(gwLog) + 1
            /\ gwLog'[Len(gwLog')] \in {"create", "update"}
      /\ (isSaving /\ ~isSaving')
         => /\ last'.ev \in {"resolved", "threw"}
            /\ last'.call.op \in {"create", "update"}
            /\ Len(toasts') = Len(toasts) + 1
      /\ (isDeleting' /\ ~isDeleting)
         => /\ Len(gwLog') = Len(gwLog) + 1
            /\ gwLog'[Len(gwLog')] = "delete"
      /\ (isDeleting /\ ~isDeleting')
         => /\ last'.ev \in {"resolved", "threw"}
            /\ last'.call.op = "delete" ]_vars

C14_Witness ==
  /\ last.ev = "ClickSave"
  /\ Len(calls) = 1 /\ calls[1].op = "update"
  /\ isSaving /\ ~isDeleting
  /\ toasts = <<>>

\* C15: the New link and the Delete button are offered only with a task
\* (edit mode), New only with canCreate and Delete only with canDelete; a
\* click on New issues no gateway call, emits no toast and leaves the
\* lifecycle flags as they are.
C15_NewAndDeleteOnlyInEditMode ==
  /\ [](ENABLED ClickNew => HasTask /\ canCreate)
  /\ [](ENABLED ClickDelete => HasTask /\ canDelete)
  /\ [](~HasTask => ~dialogOpen)
  /\ [][ /\ (last'.ev = "ClickNew")
            => /\ HasTask /\ canCreate
               /\ nav' = Append(nav, [kind |-> "link", href |-> "/tasks/new"])
               /\ UNCHANGED <<calls, gwLog, toasts, isSaving, isDeleting>>
         /\ (last'.ev \in {"ClickDelete", "ClickContinue"})
            => HasTask /\ canDelete ]_vars

C15_Witness ==
  /\ HasTask /\ canCreate
  /\ last.ev = "ClickNew"
  /\ nav = <<[kind |-> "link", href |-> "/tasks/new"]>>
  /\ gwLog = <<>> /\ toasts = <<>> /\ Idle

\* C16: Back can be clicked whatever the capability flags, the mode and the
\* lifecycle flags are, as long as the page is interactive; a click emits
\* one router intent, back, and nothing else: no gateway call, no toast, no
\* change of the lifecycle flags or of the form.
C16_BackIsPassthrough ==
  /\ []((PageInteractive /\ navClicks < MaxNavClicks) => ENABLED ClickBack)
  /\ [][ (last'.ev = "ClickBack")
         => /\ nav' = Append(nav, [kind |-> "back", href |-> ""])
            /\ emitted' = Append(emitted, "nav")
            /\ UNCHANGED <<calls, gwLog, toasts, isSaving, isDeleting, form,
                           errors, isSubmitted, dialogOpen>> ]_vars

C16_Witness ==
  /\ last.ev = "ClickBack"
  /\ ~canCreate /\ ~canUpdate
  /\ isDeleting /\ calls # <<>>
  /\ nav = <<[kind |-> "back", href |-> ""]>>

\* C17: the initial form values: with a task, its title, its status and its
\* description, a null description becoming the empty text; without a
\* task, empty title, status Todo, empty description.
C17_InitialFormState ==
  (last.ev = "init")
  => IF task # NoTask
       THEN /\ form.title = task.title
            /\ form.status = task.status
            /\ form.description =
                 (IF task.description = Null THEN "" ELSE task.description)
       ELSE form = [title |-> "", status |-> "Todo", description |-> ""]

C17_Witness ==
  /\ last.ev = "init"
  /\ task # NoTask /\ task.description = Null
  /\ form = [title |-> "Ship report", status |-> "InProgress",
             description |-> ""]

\* C18: a gateway call is only issued by a user trigger (Save click, Enter
\* in the title, Continue), one call per trigger; the step in which a call
\* resolves or throws issues no call.
C18_NoAutomaticRetry ==
  [][ /\ Len(gwLog') <= Len(gwLog) + 1
      /\ (Len(gwLog') > Len(gwLog))
         => /\ last'.ev \in SubmitEvents \cup {"ClickContinue"}
            /\ calls' = Append(calls, last'.call)
      /\ (last'.ev \in {"resolved", "threw"})
         => /\ gwLog' = gwLog
            /\ Len(calls') = Len(calls) - 1 ]_vars

C18_Witness ==
  /\ last.ev = "ClickSave"
  /\ gwLog = <<"update", "update">>
  /\ toasts = <<ToastSaveError>>
  /\ Len(calls) = 1

\* C19: once a createTask has resolved on this instance (its replace intent
\* was issued), no later step issues another createTask; stated for an
\* instance with canCreate, where Save is offered.
C19_AtMostOneEntityCreated ==
  [][ (canCreate /\ \E i \in 1..Len(nav) : nav[i].kind = "replace")
      => ~(Len(gwLog') > Len(gwLog) /\ gwLog'[Len(gwLog')] = "create") ]_vars

\* C20: the form values change only by a field edit, and never while
\* isSaving is true, so that when the call of a Save resolves or throws the
\* form holds the draft that was passed to it; while only isDeleting is
\* true the three fields can be edited.
C20_FieldsLockedWhileSaving ==
  /\ []((PageInteractive /\ isDeleting /\ ~isSaving)
        => /\ ENABLED ChangeTitle
           /\ ENABLED ChangeStatus
           /\ ENABLED ChangeDescription)
  /\ [][ /\ (form' # form) => (~isSaving /\ last'.ev = "change")
         /\ (last'.ev = "change") => ~isSaving
         /\ (last'.ev \in {"resolved", "threw"}
               /\ last'.call.op \in {"create", "update"})
            => form = DraftOf(last'.call) ]_vars

C20_Witness ==
  /\ last.ev = "change"
  /\ isDeleting /\ ~isSaving
  /\ form # DefaultValues(task)
=============================================================================
